---- MODULE Spec2Model ----
(***************************************************************************)
(* A model of app.py, the flashcard generator: the CSV rows are parsed     *)
(* into card records (read_cards_from_csv), a deck of NB_CARTES cards is   *)
(* laid out on a 2 x 5 grid (compute_grid, card_xy) and build_pdf draws    *)
(* the front faces on page 1 and the column-mirrored back faces on page 2. *)
(*                                                                         *)
(* Text is a sequence of one-character strings, so that strip(), lower()   *)
(* and the regular expressions act on characters as they do in the code.   *)
(* Lengths are exact multiples of cm / 2000 (A4 is 210 mm x 297 mm and     *)
(* every length of the layout is a multiple of that unit), so the grid     *)
(* arithmetic is the exact arithmetic the floating point code rounds.      *)
(***************************************************************************)
EXTENDS Integers, Sequences, FiniteSets, TLC

VARIABLES
    pc,                         \* where the script / build_pdf stands
    csv_rows,                   \* list(csv.reader(...)) of the uploaded file
    csv_name,                   \* uploaded_csv_file.name
    uploaded_image_file,        \* "none", "valid" or "corrupt"
    cards,                      \* read_cards_from_csv(csv_content)
    default_back_color,         \* colour picked from the file name
    cards10,                    \* the deck build_pdf iterates
    original_pil_image,         \* TRUE when the image was opened
    i,                          \* index of the loop under way
    page,                       \* page of the canvas being drawn
    canvas,                     \* draw calls made on the canvas, in order
    current_back_color,         \* colour of the cell being drawn
    text_color,                 \* textColor of style_recto
    disk,                       \* temporary files that exist
    temp_image_files_to_clean,  \* paths registered for deletion
    attempted,                  \* paths os.remove was called on
    st_messages,                \* st.error / st.warning / st.success calls
    download,                   \* TRUE when st.download_button was shown
    faults                      \* failures injected so far

vars == <<pc, csv_rows, csv_name, uploaded_image_file, cards, default_back_color,
          cards10, original_pil_image, i, page, canvas, current_back_color,
          text_color, disk, temp_image_files_to_clean, attempted, st_messages,
          download, faults>>

(***************************************************************************)
(* Bounds of the model.                                                    *)
(***************************************************************************)
\* data rows of an uploaded file: 0 .. MaxRows (more than NB_CARTES)
MaxRows == 11
\* failures (image, deletion, typesetting) injected in one run
MaxFaults == 2
\* tokens a question cell is built from in the parser's specification
MaxTokens == 4
\* colour channels take the values 0/ChannelLevels .. ChannelLevels/ChannelLevels
ChannelLevels == 20

(***************************************************************************)
(* Settings (app.py, lines 20-35).                                         *)
(***************************************************************************)
NB_CARTES == 10
COLS == 2
ROWS == 5
\* reportlab.lib.units.cm, in units of cm / 2000
cm == 2000
MARGIN == 1 * cm
GAP == (35 * cm) \div 100
ELEMENT_SPACING == (8 * cm) \div 10
\* reportlab.lib.pagesizes.A4 = (210 mm, 297 mm)
A4 == <<21 * cm, (297 * cm) \div 10>>

None == "None"

\* a colour: channels red/den, green/den, blue/den in [0, 1]
Color(r, g, b, d) == [red |-> r, green |-> g, blue |-> b, den |-> d]

\* colors.HexColor of the five named colours
COLOR_MAP ==
    [bleu  |-> Color(45, 108, 223, 255),
     rouge |-> Color(214, 69, 65, 255),
     rose  |-> Color(232, 93, 158, 255),
     vert  |-> Color(46, 204, 113, 255),
     jaune |-> Color(241, 196, 15, 255)]

\* the keys of COLOR_MAP as text
KeyChars ==
    [bleu  |-> <<"b", "l", "e", "u">>,
     rouge |-> <<"r", "o", "u", "g", "e">>,
     rose  |-> <<"r", "o", "s", "e">>,
     vert  |-> <<"v", "e", "r", "t">>,
     jaune |-> <<"j", "a", "u", "n", "e">>]

\* the order pick_color_from_filename tries the keys in
KeyOrder == <<"bleu", "rouge", "rose", "vert", "jaune">>

(***************************************************************************)
(* Text: str.strip, str.lower, substring search.                           *)
(***************************************************************************)
Whitespace == {" ", "\t", "\n"}

UpperCase == <<"A", "B", "C", "D", "E", "F", "G", "H", "I", "J", "K", "L", "M",
               "N", "O", "P", "Q", "R", "S", "T", "U", "V", "W", "X", "Y", "Z">>
LowerCase == <<"a", "b", "c", "d", "e", "f", "g", "h", "i", "j", "k", "l", "m",
               "n", "o", "p", "q", "r", "s", "t", "u", "v", "w", "x", "y", "z">>

LowerChar(ch) ==
    IF \E k \in 1..Len(UpperCase) : UpperCase[k] = ch
    THEN LowerCase[CHOOSE k \in 1..Len(UpperCase) : UpperCase[k] = ch]
    ELSE ch

Lower(s) == [k \in 1..Len(s) |-> LowerChar(s[k])]

RECURSIVE LStrip(_)
LStrip(s) ==
    IF s # <<>> /\ Head(s) \in Whitespace THEN LStrip(Tail(s)) ELSE s

RECURSIVE RStrip(_)
RStrip(s) ==
    IF s # <<>> /\ s[Len(s)] \in Whitespace
    THEN RStrip(SubSeq(s, 1, Len(s) - 1))
    ELSE s

Strip(s) == RStrip(LStrip(s))

\* `sub in s`
Contains(s, sub) ==
    \E k \in 0..(Len(s) - Len(sub)) : SubSeq(s, k + 1, k + Len(sub)) = sub

\* re.sub(r"\s+", "", s)
RECURSIVE DropWhitespace(_)
DropWhitespace(s) ==
    IF s = <<>> THEN <<>>
    ELSE IF Head(s) \in Whitespace THEN DropWhitespace(Tail(s))
    ELSE <<Head(s)>> \o DropWhitespace(Tail(s))

normalize_header(h) == DropWhitespace(Lower(Strip(h)))

(***************************************************************************)
(* read_cards_from_csv (lines 60-129).  Its input here is the list of rows *)
(* csv.reader returns; a row is a list of cells, a cell is text.           *)
(***************************************************************************)
W_question == <<"q", "u", "e", "s", "t", "i", "o", "n">>
W_q == <<"q">>
W_texte == <<"t", "e", "x", "t", "e">>
W_text == <<"t", "e", "x", "t">>
W_reponse == <<"r", "e", "p", "o", "n", "s", "e">>
W_reponse_accent == <<"r", "é", "p", "o", "n", "s", "e">>
W_answer == <<"a", "n", "s", "w", "e", "r">>
W_reponseverso == <<"r", "e", "p", "o", "n", "s", "e", "v", "e", "r", "s", "o">>
W_verso == <<"v", "e", "r", "s", "o">>

\* the words of row 0 that make it a header (line 77)
HeaderVocabulary ==
    {W_question, W_q, W_texte, W_text, W_reponse, W_reponse_accent, W_answer,
     W_reponseverso, W_verso}

QuestionKeys == <<W_question, W_q>>
TexteKeys == <<W_texte, W_text, W_reponse, W_reponse_accent, W_answer, W_verso,
               W_reponseverso>>

\* the pattern \(([^)]+)\)\s*$ matches s from position p
ColorPatternAt(s, p) ==
    /\ p \in 1..Len(s)
    /\ s[p] = "("
    /\ \E e \in (p + 2)..Len(s) :
          /\ s[e] = ")"
          /\ \A k \in (p + 1)..(e - 1) : s[k] # ")"
          /\ \A k \in (e + 1)..Len(s) : s[k] \in Whitespace

\* re.search: the leftmost position the pattern matches from, 0 when none
ColorSearch(s) ==
    IF \E p \in 1..Len(s) : ColorPatternAt(s, p)
    THEN CHOOSE p \in 1..Len(s) :
            /\ ColorPatternAt(s, p)
            /\ \A q \in 1..(p - 1) : ~ColorPatternAt(s, q)
    ELSE 0

\* match.group(1) of the match that starts at p
ColorGroup(s, p) ==
    LET e == CHOOSE e \in (p + 2)..Len(s) :
                 s[e] = ")" /\ \A k \in (p + 1)..(e - 1) : s[k] # ")"
    IN  SubSeq(s, p + 1, e - 1)

\* re.sub(r'\s*\(([^)]+)\)\s*$', '', s): the match starts at the leftmost
\* position from which white space leads to a match of the pattern and
\* runs to the end of s
ColorSub(s) ==
    LET starts == {t \in 1..Len(s) :
                     \E p \in t..Len(s) :
                        /\ ColorPatternAt(s, p)
                        /\ \A k \in t..(p - 1) : s[k] \in Whitespace}
    IN  IF starts = {} THEN s
        ELSE SubSeq(s, 1, (CHOOSE t \in starts : \A u \in starts : t <= u) - 1)

\* `extracted_color_name in COLOR_MAP`
InColorMap(name) == \E k \in DOMAIN COLOR_MAP : KeyChars[k] = name

ColorKeyOf(name) == CHOOSE k \in DOMAIN COLOR_MAP : KeyChars[k] = name

\* lines 95-104 and 114-122: the colour tag of a raw question
ExtractColor(q_raw) ==
    LET p == ColorSearch(q_raw)
        extracted_color_name == Strip(Lower(ColorGroup(q_raw, p)))
    IN  IF p # 0 /\ InColorMap(extracted_color_name)
        THEN [question_text |-> Strip(ColorSub(q_raw)),
              card_color_key |-> ColorKeyOf(extracted_color_name)]
        ELSE [question_text |-> q_raw, card_color_key |-> None]

\* `not any(str(x).strip() for x in r)`
BlankRow(r) == \A k \in 1..Len(r) : Strip(r[k]) = <<>>

\* d = {headers[i]: r[i].strip() if i < len(r) else ""}: a later column
\* of the same header overwrites the earlier one
DictValue(headers, r, kk) ==
    LET k == CHOOSE k \in 1..Len(headers) :
                 headers[k] = kk /\ \A m \in (k + 1)..Len(headers) : headers[m] # kk
    IN  IF k <= Len(r) THEN Strip(r[k]) ELSE <<>>

\* get_field (lines 79-85): the first key of keys the dictionary has
RECURSIVE get_field(_, _, _)
get_field(headers, r, keys) ==
    IF keys = <<>> THEN <<>>
    ELSE LET nk == normalize_header(Head(keys))
             hit == {k \in 1..Len(headers) : normalize_header(headers[k]) = nk}
         IN  IF hit # {}
             THEN Strip(DictValue(headers, r, headers[CHOOSE k \in hit : \A m \in hit : k <= m]))
             ELSE get_field(headers, r, Tail(keys))

CardRecord(q, txt) ==
    [question |-> q.question_text, texte |-> txt, card_color_key |-> q.card_color_key]

\* lines 93-107: one row of a file with a header
HeaderedCard(headers, r) ==
    CardRecord(ExtractColor(get_field(headers, r, QuestionKeys)),
               get_field(headers, r, TexteKeys))

\* lines 113-127: one row of a file without header
HeaderlessCard(r) ==
    LET q_raw == IF Len(r) > 0 THEN Strip(r[1]) ELSE <<>>
        txt1 == IF Len(r) > 1 THEN Strip(r[2]) ELSE <<>>
        txt == IF txt1 = <<>> /\ Len(r) > 2 THEN Strip(r[3]) ELSE txt1
    IN  CardRecord(ExtractColor(q_raw), txt)

RECURSIVE HeaderedCards(_, _)
HeaderedCards(headers, rows) ==
    IF rows = <<>> THEN <<>>
    ELSE IF BlankRow(Head(rows)) THEN HeaderedCards(headers, Tail(rows))
    ELSE <<HeaderedCard(headers, Head(rows))>> \o HeaderedCards(headers, Tail(rows))

RECURSIVE HeaderlessCards(_)
HeaderlessCards(rows) ==
    IF rows = <<>> THEN <<>>
    ELSE IF BlankRow(Head(rows)) THEN HeaderlessCards(Tail(rows))
    ELSE <<HeaderlessCard(Head(rows))>> \o HeaderlessCards(Tail(rows))

\* line 77
HasHeader(rows) ==
    \E k \in 1..Len(rows[1]) : normalize_header(rows[1][k]) \in HeaderVocabulary

read_cards_from_csv(rows) ==
    IF rows = <<>> THEN <<>>
    ELSE IF HasHeader(rows)
         THEN HeaderedCards([k \in 1..Len(rows[1]) |-> normalize_header(rows[1][k])],
                            Tail(rows))
         ELSE HeaderlessCards(rows)

\* pick_color_from_filename (lines 37-42): the first key the name contains
RECURSIVE PickKey(_, _)
PickKey(low, keys) ==
    IF keys = <<>> THEN "bleu"
    ELSE IF Contains(low, KeyChars[Head(keys)]) THEN Head(keys)
    ELSE PickKey(low, Tail(keys))

pick_color_from_filename(filename) == PickKey(Lower(filename), KeyOrder)

(***************************************************************************)
(* Contrast and layout: is_dark, compute_grid, card_xy.                    *)
(***************************************************************************)
White == Color(1, 1, 1, 1)
Black == Color(0, 0, 0, 1)

\* lum = 0.2126*r + 0.7152*g + 0.0722*b, times 10000 * den
LumScaled(c) == 2126 * c.red + 7152 * c.green + 722 * c.blue

\* is_dark with the boundary on the dark side
is_dark_inclusive(c) == LumScaled(c) <= 5500 * c.den

\* lum < 0.55
is_dark(c) == LumScaled(c) < 5500 * c.den

\* textColor of style_recto (line 226)
TextColorOn(c) == IF is_dark(c) THEN White ELSE Black

compute_grid ==
    LET page_w == A4[1]
        page_h == A4[2]
        usable_w == page_w - 2 * MARGIN - (COLS - 1) * GAP
        usable_h == page_h - 2 * MARGIN - (ROWS - 1) * GAP
    IN  [page_w |-> page_w, page_h |-> page_h,
         card_w |-> usable_w \div COLS, card_h |-> usable_h \div ROWS,
         x0 |-> MARGIN, y0 |-> MARGIN]

\* card_xy that forgets the gap between the columns and the rows
card_xy_no_gap(grid, col, row) ==
    <<grid.x0 + col * grid.card_w,
      grid.page_h - grid.y0 - row * grid.card_h - grid.card_h>>

\* row 0 at the top; the result is the bottom-left corner of the cell
card_xy(grid, col, row) ==
    LET x == grid.x0 + col * (grid.card_w + GAP)
        y_top == grid.page_h - grid.y0 - row * (grid.card_h + GAP)
    IN  <<x, y_top - grid.card_h>>

(***************************************************************************)
(* build_pdf (lines 190-295).                                              *)
(***************************************************************************)
\* dict.get
Get(d, key, dflt) == IF key \in DOMAIN d THEN d[key] ELSE dflt

BlankCard == [question |-> <<>>, texte |-> <<>>]

Repeat(x, n) == [k \in 1..n |-> x]

Take(s, n) == SubSeq(s, 1, IF Len(s) < n THEN Len(s) ELSE n)

\* the deck without the blank cards that fill it
AssembleDeck_no_padding(cs) == Take(cs, NB_CARTES)

\* line 199
AssembleDeck(cs) == Take(Take(cs, NB_CARTES) \o Repeat(BlankCard, NB_CARTES), NB_CARTES)

\* lines 217-218
FrontCol(n) == n % COLS
FrontRow(n) == n \div COLS

\* the back face in the column of the front face
BackCol_unmirrored(n) == n % COLS

\* line 284
BackCol(n) == COLS - 1 - FrontCol(n)

\* a card without key drawn in blue, whatever the file name says
BackColorOf_always_blue(card, dflt) ==
    Get(COLOR_MAP, Get(card, "card_color_key", None), COLOR_MAP["bleu"])

\* lines 221-222
BackColorOf(card, dflt) ==
    LET card_specific_color_key == Get(card, "card_color_key", None)
    IN  Get(COLOR_MAP, card_specific_color_key, dflt)

\* a call on the canvas, for the card of slot n
DrawCall(op, n, box, text, color) ==
    [op |-> op, page |-> page, slot |-> n, x |-> box[1], y |-> box[2],
     w |-> box[3], h |-> box[4], text |-> text, color |-> color]

\* the whole cell (col, row)
CellBox(col, row) ==
    LET grid == compute_grid
        xy == card_xy(grid, col, row)
    IN  <<xy[1], xy[2], grid.card_w, grid.card_h>>

\* lines 254-258: the square image, half the cell high, centred
ImageBox(col, row) ==
    LET grid == compute_grid
        xy == card_xy(grid, col, row)
        img_h == grid.card_h \div 2
        img_w == img_h
    IN  <<xy[1] + (grid.card_w - img_w) \div 2, xy[2] + ELEMENT_SPACING, img_w, img_h>>

\* lines 260-264: the text above the image
TextBoxAboveImage(col, row) ==
    LET grid == compute_grid
        xy == card_xy(grid, col, row)
        img_h == grid.card_h \div 2
        img_y == xy[2] + ELEMENT_SPACING
    IN  <<xy[1], img_y + img_h + ELEMENT_SPACING, grid.card_w,
          grid.card_h - (3 * ELEMENT_SPACING + img_h)>>

\* lines 229-230: the coloured background of the front cell
FillCall(n) ==
    DrawCall("rect", n, CellBox(FrontCol(n), FrontRow(n)), <<>>,
             BackColorOf(cards10[n + 1], default_back_color))

\* lines 271 and 276: the question centred in the whole cell
QuestionInCell(n) ==
    DrawCall("text", n, CellBox(FrontCol(n), FrontRow(n)),
             Get(cards10[n + 1], "question", <<>>),
             TextColorOn(BackColorOf(cards10[n + 1], default_back_color)))

\* line 274: the question in the box above the image
QuestionAboveImage(n) ==
    DrawCall("text", n, TextBoxAboveImage(FrontCol(n), FrontRow(n)),
             Get(cards10[n + 1], "question", <<>>),
             TextColorOn(BackColorOf(cards10[n + 1], default_back_color)))

\* lines 267-268
ImageCall(n) ==
    DrawCall("drawImage", n, ImageBox(FrontCol(n), FrontRow(n)), <<>>,
             BackColorOf(cards10[n + 1], default_back_color))

\* line 287: style_verso has textColor black
BackTextCall(n) ==
    DrawCall("text", n, CellBox(BackCol(n), FrontRow(n)),
             Get(cards10[n + 1], "texte", <<>>), Black)

Message(kind, what, n) == [kind |-> kind, what |-> what, card |-> n]

(***************************************************************************)
(* The files that are uploaded.                                            *)
(***************************************************************************)
Sym == <<"0", "1", "2", "3", "4", "5", "6", "7", "8", "9", "a", "b", "c", "d",
         "e", "f">>

Tag ==
    << <<" ", "(", "r", "o", "u", "g", "e", ")">>,
       <<>>,
       <<" ", "(", "v", "i", "o", "l", "e", "t", ")">>,
       <<"(", "J", "A", "U", "N", "E", ")", " ">> >>

QuestionCell(k) == <<"Q", Sym[k + 1]>> \o Tag[(k % 4) + 1]
AnswerCell(k) == <<" ", "A", Sym[k + 1]>>

\* every fifth row keeps its answer in the third column
DataRow(k) ==
    IF k % 5 = 0 THEN <<QuestionCell(k), <<" ">>, AnswerCell(k)>>
    ELSE <<QuestionCell(k), AnswerCell(k)>>

HeaderRow == << <<" ", "Q", "u", "e", "s", "t", "i", "o", "n">>,
                <<"R", "e", "p", "o", "n", "s", "e", " ">> >>

EmptyRow == << <<" ">>, <<>> >>

RECURSIVE DataRows(_, _, _)
DataRows(k, n, blank) ==
    IF k > n THEN <<>>
    ELSE <<DataRow(k)>> \o (IF blank /\ k = 1 THEN <<EmptyRow>> ELSE <<>>)
         \o DataRows(k + 1, n, blank)

FileRows(hdr, n, blank) ==
    (IF hdr THEN <<HeaderRow>> ELSE <<>>)
    \o (IF blank /\ n = 0 THEN <<EmptyRow>> ELSE <<>>)
    \o DataRows(1, n, blank)

JauneFile == <<"J", "A", "U", "N", "E", ".", "c", "s", "v">>

FileNames == { <<"d", "e", "c", "k", ".", "c", "s", "v">>, JauneFile }

\* the files uploaded together with a readable image
ImageRows == {3, MaxRows}

\* what a question cell is made of, in the parser's specification
Tokens ==
    { <<"x">>, <<" ">>, <<"(">>, <<")">>, <<"r", "o", "u", "g", "e">>,
      <<"V", "e", "r", "t">>, <<"v", "i", "o", "l", "e", "t">> }

RECURSIVE Concat(_)
Concat(ts) == IF ts = <<>> THEN <<>> ELSE Head(ts) \o Concat(Tail(ts))

TokenCells == {Concat(ts) : ts \in UNION {[1..n -> Tokens] : n \in 0..MaxTokens}}

QuestionFile(cell, hdr) ==
    (IF hdr THEN << <<W_question, W_reponse>> >> ELSE <<>>) \o << <<cell, <<"A">>>> >>

(***************************************************************************)
(* The script (lines 309-344).                                             *)
(***************************************************************************)
Init ==
    /\ pc = "start"
    /\ csv_rows = <<>>
    /\ csv_name = <<>>
    /\ uploaded_image_file = "none"
    /\ cards = <<>>
    /\ default_back_color = COLOR_MAP["bleu"]
    /\ cards10 = <<>>
    /\ original_pil_image = FALSE
    /\ i = 0
    /\ page = 1
    /\ canvas = <<>>
    /\ current_back_color = COLOR_MAP["bleu"]
    /\ text_color = Black
    /\ disk = {}
    /\ temp_image_files_to_clean = <<>>
    /\ attempted = {}
    /\ st_messages = <<>>
    /\ download = FALSE
    /\ faults = 0

buildVars == <<cards10, original_pil_image, i, page, canvas, current_back_color,
               text_color, disk, temp_image_files_to_clean, attempted>>

inputVars == <<csv_rows, csv_name, uploaded_image_file, cards, default_back_color>>

\* lines 316-326: the files are uploaded and the CSV is read
Receive(rows, name, img) ==
    /\ pc = "start"
    /\ csv_rows' = rows
    /\ csv_name' = name
    /\ uploaded_image_file' = img
    /\ default_back_color' = COLOR_MAP[pick_color_from_filename(name)]
    /\ cards' = read_cards_from_csv(rows)
    /\ pc' = "ready"
    /\ UNCHANGED <<buildVars, st_messages, download, faults>>

Upload ==
    \E hdr \in BOOLEAN, n \in 0..MaxRows, blank \in BOOLEAN, name \in FileNames,
       img \in {"none", "corrupt"} :
        Receive(FileRows(hdr, n, blank), name, img)

UploadWithImage ==
    \E n \in ImageRows :
        Receive(FileRows(TRUE, n, FALSE), JauneFile, "valid")

UploadQuestion ==
    \E cell \in TokenCells, hdr \in BOOLEAN :
        Receive(QuestionFile(cell, hdr), <<"d", "e", "c", "k">>, "none")

\* the button that builds whatever was read
CardsRead_unchecked(cs) == TRUE

\* `if cards:` (line 332)
CardsRead(cs) == cs # <<>>

\* line 344: nothing was read, the generation is cancelled
GenerateNoCards ==
    /\ pc = "ready"
    /\ ~CardsRead(cards)
    /\ st_messages' = Append(st_messages, Message("error", "no_cards", -1))
    /\ pc' = "cancelled"
    /\ UNCHANGED <<inputVars, buildVars, download, faults>>

\* lines 333-334 and 191-204: build_pdf is entered
GenerateBuild ==
    /\ pc = "ready"
    /\ CardsRead(cards)
    /\ cards10' = AssembleDeck(cards)
    /\ canvas' = <<>>
    /\ page' = 1
    /\ original_pil_image' = FALSE
    /\ temp_image_files_to_clean' = <<>>
    /\ pc' = "preprocess"
    /\ UNCHANGED <<inputVars, i, current_back_color, text_color, disk, attempted,
                   st_messages, download, faults>>

\* lines 206-213: the image is opened, or there is none, or it cannot be read
Preprocess ==
    /\ pc = "preprocess"
    /\ original_pil_image' = (uploaded_image_file = "valid")
    /\ st_messages' =
          IF uploaded_image_file = "corrupt"
          THEN Append(st_messages, Message("error", "preprocess", -1))
          ELSE st_messages
    /\ i' = 0
    /\ pc' = "front"
    /\ UNCHANGED <<inputVars, cards10, page, canvas, current_back_color, text_color,
                   disk, temp_image_files_to_clean, attempted, download, faults>>

(***************************************************************************)
(* The front pass (lines 216-276).  One action is one turn of the loop,    *)
(* one action for each way the turn can go.                                *)
(***************************************************************************)
\* the calls of a turn without image (line 276)
TextOnlyCalls(n) == <<FillCall(n), QuestionInCell(n)>>

\* the calls of a turn whose image is composited and drawn (lines 267-274)
ImageCalls(n) == <<FillCall(n), ImageCall(n), QuestionAboveImage(n)>>

\* the calls of a turn whose compositing fails (lines 248-250, then 276)
CompositeFailCalls(n) == <<FillCall(n), QuestionInCell(n)>>

\* a failed drawImage that leaves the question in the box above the image
DrawFailCalls_text_box(n) == <<FillCall(n), QuestionAboveImage(n)>>

\* a failed drawImage without `continue`: line 274 draws the question again
DrawFailCalls_no_continue(n) ==
    <<FillCall(n), QuestionInCell(n), QuestionAboveImage(n)>>

\* the calls of a turn whose drawImage fails (lines 269-272)
DrawFailCalls(n) == <<FillCall(n), QuestionInCell(n)>>

\* the temporary file of a turn is named after its card
TempFile(n) == n

\* line 246: the path is registered once the composite is saved
Registered(list, path) == Append(list, path)

FrontTurn(calls, created, list, msgs, failed) ==
    /\ pc = "front"
    /\ i < NB_CARTES
    /\ faults + failed <= MaxFaults
    /\ current_back_color' = BackColorOf(cards10[i + 1], default_back_color)
    /\ text_color' = TextColorOn(BackColorOf(cards10[i + 1], default_back_color))
    /\ canvas' = canvas \o calls
    /\ disk' = disk \cup created
    /\ temp_image_files_to_clean' = list
    /\ st_messages' = st_messages \o msgs
    /\ faults' = faults + failed
    /\ i' = i + 1
    /\ UNCHANGED <<pc, inputVars, cards10, original_pil_image, page, attempted, download>>

\* no image: the question fills the cell
FrontText ==
    /\ ~original_pil_image
    /\ FrontTurn(TextOnlyCalls(i), {}, temp_image_files_to_clean, <<>>, 0)

\* the composite is saved, registered and drawn, the question goes above it
FrontImage ==
    /\ original_pil_image
    /\ FrontTurn(ImageCalls(i), {TempFile(i)},
                 Registered(temp_image_files_to_clean, TempFile(i)), <<>>, 0)

\* Image.new, paste or NamedTemporaryFile raises: no file was created
FrontCompositeFails ==
    /\ original_pil_image
    /\ FrontTurn(CompositeFailCalls(i), {}, temp_image_files_to_clean,
                 <<Message("error", "compositing", i)>>, 1)

\* save raises (line 245): the file exists (delete=False), line 246 is skipped
FrontSaveFails ==
    /\ original_pil_image
    /\ FrontTurn(CompositeFailCalls(i), {TempFile(i)}, temp_image_files_to_clean,
                 <<Message("error", "compositing", i)>>, 1)

\* drawImage raises (lines 269-272): the file is registered, the loop continues
FrontDrawFails ==
    /\ original_pil_image
    /\ FrontTurn(DrawFailCalls(i), {TempFile(i)},
                 Registered(temp_image_files_to_clean, TempFile(i)),
                 <<Message("error", "drawImage", i)>>, 1)

\* the typesetting of the question raises (lines 274 and 276 are in no try):
\* build_pdf is left by the exception, after the composite of the card was made
FrontTextRaises ==
    /\ pc = "front"
    /\ i < NB_CARTES
    /\ faults < MaxFaults
    /\ current_back_color' = BackColorOf(cards10[i + 1], default_back_color)
    /\ text_color' = TextColorOn(BackColorOf(cards10[i + 1], default_back_color))
    /\ canvas' = canvas \o (IF original_pil_image THEN <<FillCall(i), ImageCall(i)>>
                            ELSE <<FillCall(i)>>)
    /\ disk' = IF original_pil_image THEN disk \cup {TempFile(i)} ELSE disk
    /\ temp_image_files_to_clean' =
          IF original_pil_image THEN Registered(temp_image_files_to_clean, TempFile(i))
          ELSE temp_image_files_to_clean
    /\ st_messages' = Append(st_messages, Message("exception", "question", i))
    /\ faults' = faults + 1
    /\ pc' = "raised"
    /\ UNCHANGED <<inputVars, cards10, original_pil_image, i, page, attempted, download>>

\* line 278
ShowPage ==
    /\ pc = "front"
    /\ i = NB_CARTES
    /\ page' = page + 1
    /\ i' = 0
    /\ pc' = "back"
    /\ UNCHANGED <<inputVars, cards10, original_pil_image, canvas, current_back_color,
                   text_color, disk, temp_image_files_to_clean, attempted,
                   st_messages, download, faults>>

(***************************************************************************)
(* The back pass, the save and the deletion of the temporary files         *)
(* (lines 281-295), then the end of the script (lines 336-342).            *)
(***************************************************************************)
BackTurn ==
    /\ pc = "back"
    /\ i < NB_CARTES
    /\ canvas' = Append(canvas, BackTextCall(i))
    /\ i' = i + 1
    /\ UNCHANGED <<pc, inputVars, cards10, original_pil_image, page,
                   current_back_color, text_color, disk, temp_image_files_to_clean,
                   attempted, st_messages, download, faults>>

\* the typesetting of the back text raises (line 287 is in no try)
BackTextRaises ==
    /\ pc = "back"
    /\ i < NB_CARTES
    /\ faults < MaxFaults
    /\ st_messages' = Append(st_messages, Message("exception", "texte", i))
    /\ faults' = faults + 1
    /\ pc' = "raised"
    /\ UNCHANGED <<inputVars, buildVars, download>>

\* line 289
Save ==
    /\ pc = "back"
    /\ i = NB_CARTES
    /\ i' = 0
    /\ pc' = "cleanup"
    /\ UNCHANGED <<inputVars, cards10, original_pil_image, page, canvas,
                   current_back_color, text_color, disk, temp_image_files_to_clean,
                   attempted, st_messages, download, faults>>

\* lines 291-293: os.remove deletes the next registered file
RemoveTemp ==
    /\ pc = "cleanup"
    /\ i < Len(temp_image_files_to_clean)
    /\ disk' = disk \ {temp_image_files_to_clean[i + 1]}
    /\ attempted' = attempted \cup {temp_image_files_to_clean[i + 1]}
    /\ i' = i + 1
    /\ UNCHANGED <<pc, inputVars, cards10, original_pil_image, page, canvas,
                   current_back_color, text_color, temp_image_files_to_clean,
                   st_messages, download, faults>>

\* lines 294-295: os.remove raises OSError, a warning is shown
RemoveTempFails ==
    /\ pc = "cleanup"
    /\ i < Len(temp_image_files_to_clean)
    /\ faults < MaxFaults
    /\ attempted' = attempted \cup {temp_image_files_to_clean[i + 1]}
    /\ st_messages' = Append(st_messages,
                             Message("warning", "remove", temp_image_files_to_clean[i + 1]))
    /\ faults' = faults + 1
    /\ i' = i + 1
    /\ UNCHANGED <<pc, inputVars, cards10, original_pil_image, page, canvas,
                   current_back_color, text_color, disk, temp_image_files_to_clean,
                   download>>

\* build_pdf returns; lines 336-342 announce the PDF and offer the download
Finish ==
    /\ pc = "cleanup"
    /\ i = Len(temp_image_files_to_clean)
    /\ st_messages' = Append(st_messages, Message("success", "generated", -1))
    /\ download' = TRUE
    /\ pc' = "done"
    /\ UNCHANGED <<inputVars, buildVars, faults>>

Next ==
    \/ Upload
    \/ UploadWithImage
    \/ GenerateNoCards
    \/ GenerateBuild
    \/ Preprocess
    \/ FrontText
    \/ FrontImage
    \/ FrontCompositeFails
    \/ FrontSaveFails
    \/ FrontDrawFails
    \/ FrontTextRaises
    \/ ShowPage
    \/ BackTurn
    \/ BackTextRaises
    \/ Save
    \/ RemoveTemp
    \/ RemoveTempFails
    \/ Finish

Spec == Init /\ [][Next]_vars

(***************************************************************************)
(* The parser alone: one question cell, with and without a header row.     *)
(***************************************************************************)
NextParse == UploadQuestion

SpecParse == Init /\ [][NextParse]_vars

(***************************************************************************)
(* is_dark alone, on every colour of a grid of channel values.             *)
(***************************************************************************)
Channel == 0..ChannelLevels

InitDark ==
    /\ pc = "style"
    /\ csv_rows = <<>>
    /\ csv_name = <<>>
    /\ uploaded_image_file = "none"
    /\ cards = <<>>
    /\ default_back_color = COLOR_MAP["bleu"]
    /\ cards10 = <<>>
    /\ original_pil_image = FALSE
    /\ i = 0
    /\ page = 1
    /\ canvas = <<>>
    /\ current_back_color \in {Color(r, g, b, ChannelLevels) : r, g, b \in Channel}
    /\ text_color = Black
    /\ disk = {}
    /\ temp_image_files_to_clean = <<>>
    /\ attempted = {}
    /\ st_messages = <<>>
    /\ download = FALSE
    /\ faults = 0

\* lines 224-227: the style of the front text is chosen for the background
ChooseTextColor ==
    /\ pc = "style"
    /\ text_color' = TextColorOn(current_back_color)
    /\ pc' = "styled"
    /\ UNCHANGED <<inputVars, cards10, original_pil_image, i, page, canvas,
                   current_back_color, disk, temp_image_files_to_clean, attempted,
                   st_messages, download, faults>>

NextDark == ChooseTextColor

SpecDark == InitDark /\ [][NextDark]_vars

(***************************************************************************)
(* What the claims are stated with.                                        *)
(***************************************************************************)
Slots == 0..(NB_CARTES - 1)

\* build_pdf has been entered
InBuild == pc \in {"preprocess", "front", "back", "cleanup", "done", "raised"}

\* the calls made for slot n on page p, in the order they were made
CallsOf(n, p) ==
    LET Mine(c) == c.slot = n /\ c.page = p
    IN  SelectSeq(canvas, Mine)

\* the text calls of page p, in the order they were made
TextCalls(p) ==
    LET Mine(c) == c.op = "text" /\ c.page = p
    IN  SelectSeq(canvas, Mine)

\* the background fills of the front page, in the order they were made
RectCalls ==
    LET Mine(c) == c.op = "rect"
    IN  SelectSeq(canvas, Mine)

\* an image failure was reported for the card of slot n
ImageFailed(n) ==
    \E k \in 1..Len(st_messages) :
        /\ st_messages[k].kind = "error"
        /\ st_messages[k].what \in {"compositing", "drawImage"}
        /\ st_messages[k].card = n

\* the typesetting of the question of slot n raised
QuestionRaised(n) ==
    \E k \in 1..Len(st_messages) :
        /\ st_messages[k].kind = "exception"
        /\ st_messages[k].what = "question"
        /\ st_messages[k].card = n

\* the whole cell (col, row), from the constants of the layout
WholeCell(c, col, row) ==
    /\ <<c.x, c.y>> = card_xy(compute_grid, col, row)
    /\ c.w = compute_grid.card_w
    /\ c.h = compute_grid.card_h

\* C1: whatever the number of records read (none, fewer than 10, exactly
\* 10, more than 10), the deck build_pdf iterates has exactly 10 cards.
C1_DeckLength ==
    /\ Len(AssembleDeck(cards)) = NB_CARTES
    /\ InBuild => Len(cards10) = NB_CARTES

C1_Witness ==
    /\ pc = "back"
    /\ Len(cards) > NB_CARTES
    /\ Len(cards10) = NB_CARTES

\* C2: slot n of the deck holds the n-th record read for n below the number
\* of records, the other slots hold a blank record (empty question, empty
\* back text, no colour key) and are filled with the default colour of the
\* batch, and no record from the eleventh on is in the deck.
C2_DeckContent ==
    InBuild =>
        /\ \A n \in Slots :
              IF n < Len(cards)
              THEN cards10[n + 1] = cards[n + 1]
              ELSE /\ Get(cards10[n + 1], "question", None) = <<>>
                   /\ Get(cards10[n + 1], "texte", None) = <<>>
                   /\ Get(cards10[n + 1], "card_color_key", None) = None
                   /\ \A k \in 1..Len(canvas) :
                         (canvas[k].op = "rect" /\ canvas[k].slot = n)
                            => canvas[k].color = default_back_color
        /\ \A m \in (NB_CARTES + 1)..Len(cards) :
              \A n \in 1..Len(cards10) : cards10[n] # cards[m]

C2_Witness ==
    /\ pc = "done"
    /\ Len(cards) \in 1..(NB_CARTES - 1)
    /\ default_back_color = COLOR_MAP["jaune"]
    /\ Len(RectCalls) = NB_CARTES

\* C3: the front of slot n is drawn in the cell (n % 2, n / 2) and its back
\* in the cell (1 - n % 2, n / 2); once both passes are done the fronts and
\* the backs each cover the 10 cells, one slot a cell.
C3_DuplexCells ==
    /\ \A k \in 1..Len(canvas) :
          LET c == canvas[k]
          IN  /\ (c.page = 1 /\ c.op = "rect")
                    => WholeCell(c, c.slot % 2, c.slot \div 2)
              /\ (c.page = 2 /\ c.op = "text")
                    => WholeCell(c, 1 - (c.slot % 2), c.slot \div 2)
    /\ pc = "done" =>
          \A col \in 0..(COLS - 1), row \in 0..(ROWS - 1) :
              /\ Cardinality({k \in 1..Len(canvas) :
                     canvas[k].page = 1 /\ canvas[k].op = "rect"
                     /\ <<canvas[k].x, canvas[k].y>> = card_xy(compute_grid, col, row)}) = 1
              /\ Cardinality({k \in 1..Len(canvas) :
                     canvas[k].page = 2 /\ canvas[k].op = "text"
                     /\ <<canvas[k].x, canvas[k].y>> = card_xy(compute_grid, col, row)}) = 1

C3_Witness ==
    /\ pc = "done"
    /\ Len(TextCalls(2)) = NB_CARTES
    /\ Len(RectCalls) = NB_CARTES

\* C4: when no record is read (a file of a header row only included) the
\* generation is cancelled: build_pdf is not entered, nothing is drawn, no
\* download is offered, and the click is answered by the error message.
C4_NoCardsNoPdf ==
    cards = <<>> =>
        /\ pc \in {"start", "ready", "cancelled"}
        /\ canvas = <<>>
        /\ ~download
        /\ pc = "cancelled" =>
              /\ st_messages # <<>>
              /\ st_messages[Len(st_messages)] = Message("error", "no_cards", -1)

C4_Witness ==
    /\ pc = "cancelled"
    /\ Len(csv_rows) = 1
    /\ HasHeader(csv_rows)
    /\ cards = <<>>

\* C5: a card whose compositing or image drawing failed has its question
\* centred in its whole cell and no image, the failure is reported, every
\* other card is drawn as it is without that failure, and the run still
\* draws the ten fronts and the ten backs.
C5_ImageFailureIsolated ==
    /\ \A n \in Slots :
          LET calls == CallsOf(n, 1)
              last == calls[Len(calls)]
          IN  /\ ImageFailed(n) =>
                    /\ Len(calls) = 2
                    /\ calls[1].op = "rect"
                    /\ last.op = "text"
                    /\ last.text = Get(cards10[n + 1], "question", <<>>)
                    /\ WholeCell(last, n % COLS, n \div COLS)
                    /\ pc = "front" => i > n
              /\ (~ImageFailed(n) /\ ~QuestionRaised(n) /\ calls # <<>>) =>
                    /\ calls[1].op = "rect"
                    /\ last.op = "text"
                    /\ last.text = Get(cards10[n + 1], "question", <<>>)
                    /\ IF original_pil_image
                       THEN /\ Len(calls) = 3
                            /\ calls[2].op = "drawImage"
                            /\ <<last.x, last.y, last.w, last.h>>
                                  = TextBoxAboveImage(n % COLS, n \div COLS)
                       ELSE /\ Len(calls) = 2
                            /\ WholeCell(last, n % COLS, n \div COLS)
              /\ pc \in {"cleanup", "done"} =>
                    calls # <<>> /\ Len(CallsOf(n, 2)) = 1

C5_Witness ==
    /\ pc = "done"
    /\ \E n \in Slots :
          /\ n < NB_CARTES - 1
          /\ ImageFailed(n)
          /\ ~ImageFailed(n + 1)
          /\ Len(CallsOf(n + 1, 1)) = 3

\* C6: when build_pdf is left, by its return or by an exception, every
\* temporary file that was created is deleted or its deletion was tried.
C6_TempFilesReleased ==
    pc \in {"done", "raised"} => \A f \in disk : f \in attempted

\* C7 as stated: a background of luminance exactly 0.55 is dark (white
\* text), black gives white text and white gives black text.
C7_BoundaryIsDark ==
    pc = "styled" =>
        /\ LumScaled(current_back_color) = 5500 * current_back_color.den
              => text_color = White
        /\ (current_back_color.red = 0 /\ current_back_color.green = 0
              /\ current_back_color.blue = 0) => text_color = White
        /\ (current_back_color.red = current_back_color.den
              /\ current_back_color.green = current_back_color.den
              /\ current_back_color.blue = current_back_color.den) => text_color = Black

\* C7 amended: the text is white exactly when the luminance is below 0.55,
\* so a background of luminance exactly 0.55 is not dark (black text);
\* black gives white text and white gives black text.
C7_BoundaryIsLight ==
    pc = "styled" =>
        /\ text_color \in {White, Black}
        /\ text_color = White
              <=> LumScaled(current_back_color) < 5500 * current_back_color.den
        /\ LumScaled(current_back_color) = 5500 * current_back_color.den
              => text_color = Black
        /\ (current_back_color.red = 0 /\ current_back_color.green = 0
              /\ current_back_color.blue = 0) => text_color = White
        /\ (current_back_color.red = current_back_color.den
              /\ current_back_color.green = current_back_color.den
              /\ current_back_color.blue = current_back_color.den) => text_color = Black

C7_Witness ==
    /\ pc = "styled"
    /\ LumScaled(current_back_color) = 5500 * current_back_color.den
    /\ text_color = Black

\* the question as the parser takes it from its cell
RawQuestion == Strip(csv_rows[Len(csv_rows)][1])

\* the position of the last "(" of s, 0 when there is none
LastOpen(s) ==
    IF \E k \in 1..Len(s) : s[k] = "("
    THEN CHOOSE k \in 1..Len(s) : s[k] = "(" /\ \A m \in (k + 1)..Len(s) : s[m] # "("
    ELSE 0

\* s ends with a parenthesized group: a "(", a content without parenthesis
\* that is not empty, a ")", then white space only
EndsWithGroup(s) ==
    /\ LastOpen(s) # 0
    /\ RStrip(s) # <<>>
    /\ RStrip(s)[Len(RStrip(s))] = ")"
    /\ Len(RStrip(s)) > LastOpen(s) + 1
    /\ \A k \in (LastOpen(s) + 1)..(Len(RStrip(s)) - 1) : s[k] # ")"

GroupContent(s) == SubSeq(s, LastOpen(s) + 1, Len(RStrip(s)) - 1)

\* C8: with or without header row, a question that ends with a
\* parenthesized group naming one of the five colours (lower-cased and
\* trimmed) gets that colour key and loses the group and the white space
\* before it; any other question keeps its text and gets no colour key.
C8_ColorTag ==
    pc = "ready" =>
        LET q == RawQuestion
            tagged == EndsWithGroup(q) /\ InColorMap(Strip(Lower(GroupContent(q))))
        IN  /\ Len(cards) = 1
            /\ IF tagged
               THEN /\ cards[1].card_color_key = ColorKeyOf(Strip(Lower(GroupContent(q))))
                    /\ cards[1].question = RStrip(SubSeq(q, 1, LastOpen(q) - 1))
               ELSE /\ cards[1].card_color_key = None
                    /\ cards[1].question = q

Apart(a, b) ==
    \/ a[1] + a[3] + GAP <= b[1]
    \/ b[1] + b[3] + GAP <= a[1]
    \/ a[2] + a[4] + GAP <= b[2]
    \/ b[2] + b[4] + GAP <= a[2]

Printable(a) ==
    /\ a[1] >= MARGIN
    /\ a[1] + a[3] <= A4[1] - MARGIN
    /\ a[2] >= MARGIN
    /\ a[2] + a[4] <= A4[2] - MARGIN

GridCells == (0..(COLS - 1)) \X (0..(ROWS - 1))

CellRects ==
    [cell \in GridCells |->
        <<card_xy(compute_grid, cell[1], cell[2])[1],
          card_xy(compute_grid, cell[1], cell[2])[2],
          compute_grid.card_w, compute_grid.card_h>>]

CellRect(cell) == CellRects[cell]

\* the cells drawn on page p: the filled fronts, the typeset backs
DrawnCells(p) ==
    {<<canvas[k].slot, <<canvas[k].x, canvas[k].y, canvas[k].w, canvas[k].h>>>> :
        k \in {m \in 1..Len(canvas) :
                 /\ canvas[m].page = p
                 /\ canvas[m].op = (IF p = 1 THEN "rect" ELSE "text")}}

\* the ten rectangles card_xy gives for the constants of the layout
GridCellsFit ==
    \A a \in GridCells :
        /\ Printable(CellRect(a))
        /\ a[2] = 0 => CellRect(a)[2] + CellRect(a)[4] = A4[2] - MARGIN
        /\ \A b \in GridCells :
              /\ a # b => Apart(CellRect(a), CellRect(b))
              /\ a[2] < b[2] => CellRect(a)[2] > CellRect(b)[2]

SlotsInOrder(calls) == \A k \in 1..Len(calls) : calls[k].slot = k - 1

C10_TwoOrderedPasses ==
    /\ \A k \in 1..(Len(canvas) - 1) : canvas[k].page <= canvas[k + 1].page
    /\ \A k \in 1..Len(canvas) : canvas[k].page \in {1, 2}
    /\ SlotsInOrder(TextCalls(1))
    /\ SlotsInOrder(TextCalls(2))
    /\ SlotsInOrder(RectCalls)
    /\ pc \in {"cleanup", "done"} =>
          /\ Len(TextCalls(1)) = NB_CARTES
          /\ Len(TextCalls(2)) = NB_CARTES
          /\ Len(RectCalls) = NB_CARTES
          /\ \A n \in Slots :
                /\ TextCalls(1)[n + 1].text = Get(cards10[n + 1], "question", <<>>)
                /\ TextCalls(2)[n + 1].text = Get(cards10[n + 1], "texte", <<>>)

C10_Witness ==
    /\ pc = "done"
    /\ Len(cards) > NB_CARTES
    /\ \E n \in Slots : ImageFailed(n)
    /\ \E k \in 1..Len(st_messages) : st_messages[k].what = "drawImage"
    /\ Len(TextCalls(1)) = NB_CARTES
    /\ Len(TextCalls(2)) = NB_CARTES

====
